---- MODULE Spec2Model ----
(***************************************************************************)
(* Model of gantry_position_estimator (src/src/main.rs).                   *)
(*                                                                         *)
(* Three threads of control share one Arc<Mutex<State>>:                   *)
(*   - the periodic loop (spawn_blocking): read time, sweep, publish, spin *)
(*   - the trigger service task: copy the live transforms to the locked    *)
(*     ones and respond                                                    *)
(*   - the subscriber's for_each closure: one observation at a time,       *)
(*     slot update and three derivation blocks, each under its own guard   *)
(*                                                                         *)
(* Positions are fixed-point integers (Unit per 1.0); observation          *)
(* positions are multiples of Unit so that the filter's division by 10 is  *)
(* exact over the bounded number of observations.  Time stamps and the     *)
(* clock are non-negative seconds, so the i32 subtraction of the sweep     *)
(* cannot overflow.  The quaternion of a derived transform is kept         *)
(* symbolically as the yaw's atan2 arguments plus the fixed flip about X.  *)
(***************************************************************************)
EXTENDS Integers, Sequences, FiniteSets, TLC

\* ------------------------------------------------------------------ bounds
\* number of observations delivered by the subscription
MaxMsgs == 3
\* largest clock reading (seconds); the clock starts at StaleAfter - 1
MaxSec == 6

\* --------------------------------------------------------- program constants
\* (sec - t.header.stamp.sec) > 5
StaleAfter == 5
\* let smooth = 10.0
smooth == 10
\* fixed point: Unit per 1.0
Unit == 10 * 10 * 10 * 10 * 10
\* new_transform.transform.translation.z = 3.57
FacadeHeight == (357 * Unit) \div 100
\* gantry_transform.transform.translation.z = 1.93
GantryHeight == (193 * Unit) \div 100

\* the clock's first reading in the model
FirstSec == StaleAfter - 1

\* Option<T>: None is the empty sequence, Some(v) the one-element sequence
None == << >>
Some(v) == << v >>
IsSome(o) == o # None
Get(o) == o[1]

\* let interested_in = &["aruco_0", "aruco_1", "aruco_2", "aruco_15", "aruco_5"]
interested_in == {"aruco_0", "aruco_1", "aruco_2", "aruco_15", "aruco_5"}

\* a frame id the node is not interested in
OtherId == "aruco_7"

\* the payloads an observation can carry: position, orientation and header
\* stamp (whole seconds)
Payloads ==
    { [x |-> 0,        y |-> Unit,     z |-> 2 * Unit, rot |-> <<"raw", "qa">>, sec |-> 0],
      [x |-> 3 * Unit, y |-> 4 * Unit, z |-> 5 * Unit, rot |-> <<"raw", "qb">>, sec |-> 1] }

\* a TransformStamped of the /aruco topic
Message(f, p) ==
    [child_frame_id |-> f, x |-> p.x, y |-> p.y, z |-> p.z, rot |-> p.rot, sec |-> p.sec]

\* the messages the /aruco topic carries in the model
Messages ==
    { Message(f, p) : f \in interested_in, p \in Payloads }
      \cup { Message(OtherId, CHOOSE p \in Payloads : p.sec = 0) }

VARIABLES
    marker,                     \* State.marker_0 .. marker_5, by frame id
    facade_transform,
    gantry_transform,
    agv_transform,
    locked_facade_transform,
    locked_gantry_transform,
    mutex,                      \* who holds the Mutex<State>: "free", "loop", "trigger", "sub"
    pc_loop, sec,               \* the periodic loop and the time it read
    pc_trig,                    \* the trigger service task
    pc_sub, msg, nmsgs,         \* the subscriber closure, its message, messages so far
    published,                  \* what the current publish block handed to the transport
    response,                   \* the response the current trigger block sent
    parked,                     \* threads blocked inside Mutex::lock()
    seen,                       \* history: frame ids stored into a slot so far
    before,                     \* history: presence of the locked fields before the current copy
    quiet,                      \* history: a lock request was served and no update_or_set since
    stale                       \* history: derived transforms with an input swept since derivation

shared == << marker, facade_transform, gantry_transform, agv_transform,
             locked_facade_transform, locked_gantry_transform >>

vars == << marker, facade_transform, gantry_transform, agv_transform,
           locked_facade_transform, locked_gantry_transform,
           mutex, pc_loop, sec, pc_trig, pc_sub, msg, nmsgs,
           published, response, parked, seen, before, quiet, stale >>

\* State::default(); every task at its first statement
Init ==
    /\ marker = [m \in interested_in |-> None]
    /\ facade_transform = None
    /\ gantry_transform = None
    /\ agv_transform = None
    /\ locked_facade_transform = None
    /\ locked_gantry_transform = None
    /\ mutex = "free"
    /\ pc_loop = "read_time"
    /\ sec = FirstSec
    /\ pc_trig = "idle"
    /\ pc_sub = "idle"
    /\ msg = None
    /\ nmsgs = 0
    /\ published = None
    /\ response = None
    /\ parked = {}
    /\ seen = {}
    /\ before = None
    /\ quiet = FALSE
    /\ stale = {}

\* ------------------------------------------------------------ pure functions

\* f64 division by the smoothing constant, in fixed point (rounds toward zero)
DivSmooth(a) == IF a >= 0 THEN a \div smooth ELSE -((-a) \div smooth)

\* variant: the filtered position is written into a clone of old, not of new
filter_into_old(new, old) ==
    [old EXCEPT !.x = old.x + DivSmooth(new.x - old.x),
                !.y = old.y + DivSmooth(new.y - old.y),
                !.z = old.z + DivSmooth(new.z - old.z)]

\* variant: the difference is added whole, not divided by smooth
filter_unsmoothed(new, old) ==
    [new EXCEPT !.x = old.x + (new.x - old.x),
                !.y = old.y + (new.y - old.y),
                !.z = old.z + (new.z - old.z)]

\* fn filter_transform(new, old): new with the position low-pass filtered
filter_transform(new, old) ==
    [new EXCEPT !.x = old.x + DivSmooth(new.x - old.x),
                !.y = old.y + DivSmooth(new.y - old.y),
                !.z = old.z + DivSmooth(new.z - old.z)]

\* fn update_or_set(new, maybe_old): the slot's new content
update_or_set(new, maybe_old) ==
    IF IsSome(maybe_old)
    THEN Some(filter_transform(new, Get(maybe_old)))
    ELSE Some(new)

\* variant: >= in place of >
IsStaleAtThreshold(slot, now) ==
    IF IsSome(slot) THEN (now - Get(slot).sec) >= StaleAfter ELSE FALSE

\* .as_ref().map(|t| (sec - t.header.stamp.sec) > 5).unwrap_or(false)
IsStale(slot, now) ==
    IF IsSome(slot) THEN (now - Get(slot).sec) > StaleAfter ELSE FALSE

\* one `if stale { state.marker_k = None }` of the sweep
SweepSlot(slot, now) == IF IsStale(slot, now) THEN None ELSE slot

\* diff_y.atan2(diff_x), kept as its arguments; atan2(0, x) = 0 for x >= 0
Atan2(dy, dx) == IF dy = 0 /\ dx >= 0 THEN <<0, 1>> ELSE <<dy, dx>>

\* Quaternion::from(Euler{z: yaw}) * Quaternion::from(Euler{x: Deg(180)})
YawFlip(yaw) == <<"yaw_then_x180", yaw>>

\* variant: the presence test forgets marker_0
DeriveFacadeM1Only(m0, m1) ==
    IF IsSome(m1)
    THEN Some([Get(m1) EXCEPT !.child_frame_id = "facade_aruco", !.z = FacadeHeight])
    ELSE None

\* the facade block: Some(marker_1 renamed, rotated, z = 3.57) or None
DeriveFacade(m0, m1) ==
    IF IsSome(m0) /\ IsSome(m1)
    THEN Some([Get(m1) EXCEPT
                 !.child_frame_id = "facade_aruco",
                 !.rot = YawFlip(Atan2(Get(m1).y - Get(m0).y, Get(m1).x - Get(m0).x)),
                 !.z = FacadeHeight])
    ELSE None

\* variant: the gantry is a clone of marker_2, not of marker_15
DeriveGantryFromM2(m15, m2) ==
    IF IsSome(m15) /\ IsSome(m2)
    THEN Some([Get(m2) EXCEPT
                 !.child_frame_id = "gantry_aruco",
                 !.rot = YawFlip(Atan2(Get(m15).y - Get(m2).y, Get(m15).x - Get(m2).x)),
                 !.z = GantryHeight])
    ELSE None

\* the gantry block: Some(marker_15 renamed, rotated, z = 1.93) or None
DeriveGantry(m15, m2) ==
    IF IsSome(m15) /\ IsSome(m2)
    THEN Some([Get(m15) EXCEPT
                 !.child_frame_id = "gantry_aruco",
                 !.rot = YawFlip(Atan2(Get(m15).y - Get(m2).y, Get(m15).x - Get(m2).x)),
                 !.z = GantryHeight])
    ELSE None

\* variant: an else branch that clears the agv, as the other two blocks have
DeriveAgvOrClear(m5, old) ==
    IF IsSome(m5) THEN Some([Get(m5) EXCEPT !.child_frame_id = "agv_aruco"]) ELSE None

\* the agv block: marker_5 renamed when present, else the old value is kept
DeriveAgv(m5, old) ==
    IF IsSome(m5) THEN Some([Get(m5) EXCEPT !.child_frame_id = "agv_aruco"]) ELSE old

\* the live batch: facade, gantry, agv, each when present
LiveBatch(f, g, a) ==
    (IF IsSome(f) THEN << Get(f) >> ELSE << >>) \o
    (IF IsSome(g) THEN << Get(g) >> ELSE << >>) \o
    (IF IsSome(a) THEN << Get(a) >> ELSE << >>)

\* variant: the clone is renamed but keeps the stamp of the locked transform
LockedEntryOldStamp(t, name, now) == [t EXCEPT !.child_frame_id = name]

\* one locked entry: a clone, renamed and stamped with the tick's time
LockedEntry(t, name, now) == [t EXCEPT !.child_frame_id = name, !.sec = now]

\* the locked batch
LockedBatch(lf, lg, now) ==
    (IF IsSome(lf) THEN << LockedEntry(Get(lf), "facade_locked", now) >> ELSE << >>) \o
    (IF IsSome(lg) THEN << LockedEntry(Get(lg), "gantry_locked", now) >> ELSE << >>)

\* variant: || in place of &&
ReadyEither(f, g) == IsSome(f) \/ IsSome(g)

\* let ok = state.facade_transform.is_some() && state.gantry_transform.is_some()
Ready(f, g) == IsSome(f) /\ IsSome(g)

\* Display of a bool, as format! writes it
BoolText(b) == IF b THEN "true" ELSE "false"

\* variant: the two arguments of format! in the other order
StatusMessageSwapped(lg, lf) ==
    << "gantry: ", BoolText(IsSome(lf)), ", facade: ", BoolText(IsSome(lg)) >>

\* format!("gantry: {}, facade: {}", ...), as the pieces of the string
StatusMessage(lg, lf) ==
    << "gantry: ", BoolText(IsSome(lg)), ", facade: ", BoolText(IsSome(lf)) >>

\* ------------------------------------------------------------ periodic loop

\* node.spin_once(100 ms) of the previous iteration, then
\* let now = clock.get_now(); let sec = time.sec  (the clock does not run backwards)
ReadTime ==
    /\ pc_loop = "read_time"
    /\ \E now \in sec..MaxSec : sec' = now
    /\ pc_loop' = "sweep"
    /\ UNCHANGED << parked, shared, mutex, pc_trig, pc_sub, msg, nmsgs, published, response,
                    seen, before, quiet, stale >>

\* the five `if stale { state.marker_k = None }` of the sweep block
SweepAll(mk, now) == [m \in interested_in |-> SweepSlot(mk[m], now)]

\* variant: the sweep re-derives facade and gantry from the swept slots
SweepRederiving ==
    /\ pc_loop = "sweep"
    /\ mutex = "free"
    /\ marker' = SweepAll(marker, sec)
    /\ facade_transform' = DeriveFacade(marker'["aruco_0"], marker'["aruco_1"])
    /\ gantry_transform' = DeriveGantry(marker'["aruco_15"], marker'["aruco_2"])
    /\ stale' = stale
    /\ pc_loop' = "publish"
    /\ parked' = parked \ {"loop"}
    /\ UNCHANGED << agv_transform, locked_facade_transform, locked_gantry_transform,
                    mutex, sec, pc_trig, pc_sub, msg, nmsgs, published, response,
                    seen, before, quiet >>

\* the sweep block: lock, five independent staleness tests, guard dropped
Sweep ==
    /\ pc_loop = "sweep"
    /\ mutex = "free"
    /\ marker' = SweepAll(marker, sec)
    /\ stale' = stale
         \cup (IF IsStale(marker["aruco_0"], sec) \/ IsStale(marker["aruco_1"], sec)
               THEN {"facade"} ELSE {})
         \cup (IF IsStale(marker["aruco_15"], sec) \/ IsStale(marker["aruco_2"], sec)
               THEN {"gantry"} ELSE {})
    /\ pc_loop' = "publish"
    /\ parked' = parked \ {"loop"}
    /\ UNCHANGED << facade_transform, gantry_transform, agv_transform,
                    locked_facade_transform, locked_gantry_transform,
                    mutex, sec, pc_trig, pc_sub, msg, nmsgs, published, response,
                    seen, before, quiet >>

\* variant: the locked entries are renamed and stamped in the stored state
\* instead of in a clone
PublishInPlace ==
    /\ pc_loop = "publish"
    /\ mutex = "free"
    /\ mutex' = "loop"
    /\ locked_facade_transform' =
         IF IsSome(locked_facade_transform)
         THEN Some(LockedEntry(Get(locked_facade_transform), "facade_locked", sec))
         ELSE None
    /\ locked_gantry_transform' =
         IF IsSome(locked_gantry_transform)
         THEN Some(LockedEntry(Get(locked_gantry_transform), "gantry_locked", sec))
         ELSE None
    /\ published' = Some([live   |-> LiveBatch(facade_transform, gantry_transform, agv_transform),
                          locked |-> LockedBatch(locked_facade_transform,
                                                 locked_gantry_transform, sec),
                          ok     |-> Ready(facade_transform, gantry_transform)])
    /\ pc_loop' = "pub_end"
    /\ parked' = parked \ {"loop"}
    /\ UNCHANGED << marker, facade_transform, gantry_transform, agv_transform,
                    sec, pc_trig, pc_sub, msg, nmsgs, response,
                    seen, before, quiet, stale >>

\* the publish block up to its last publish call: lock, build the batches
\* and the readiness flag, publish them; the guard is still held
Publish ==
    /\ pc_loop = "publish"
    /\ mutex = "free"
    /\ mutex' = "loop"
    /\ published' = Some([live   |-> LiveBatch(facade_transform, gantry_transform, agv_transform),
                          locked |-> LockedBatch(locked_facade_transform,
                                                 locked_gantry_transform, sec),
                          ok     |-> Ready(facade_transform, gantry_transform)])
    /\ pc_loop' = "pub_end"
    /\ parked' = parked \ {"loop"}
    /\ UNCHANGED << shared, sec, pc_trig, pc_sub, msg, nmsgs, response,
                    seen, before, quiet, stale >>

\* variant: the guard of the publish block is kept across the iteration
PublishKeepsGuard ==
    /\ pc_loop = "pub_end"
    /\ mutex = "loop"
    /\ mutex' = "loop"
    /\ published' = None
    /\ pc_loop' = "read_time"
    /\ UNCHANGED << parked, shared, sec, pc_trig, pc_sub, msg, nmsgs, response,
                    seen, before, quiet, stale >>

\* end of the publish block: the guard is dropped
PublishUnlock ==
    /\ pc_loop = "pub_end"
    /\ mutex = "loop"
    /\ mutex' = "free"
    /\ published' = None
    /\ pc_loop' = "read_time"
    /\ UNCHANGED << parked, shared, sec, pc_trig, pc_sub, msg, nmsgs, response,
                    seen, before, quiet, stale >>

\* ------------------------------------------------------------ trigger service

\* trigger_srv.next().await yields a request
TrigRecv ==
    /\ pc_trig = "idle"
    /\ pc_trig' = "lock"
    /\ UNCHANGED << parked, shared, mutex, pc_loop, sec, pc_sub, msg, nmsgs, published, response,
                    seen, before, quiet, stale >>

\* state.locked_gantry_transform = state.gantry_transform.clone()
LockGantry(cur, old) == cur

\* variant: a sticky snapshot, kept when the live facade is absent
LockFacadeSticky(cur, old) == IF IsSome(cur) THEN cur ELSE old

\* state.locked_facade_transform = state.facade_transform.clone()
LockFacade(cur, old) == cur

\* lock, the two copies, the status message and req.respond(..); the guard is still held
TrigServe ==
    /\ pc_trig = "lock"
    /\ mutex = "free"
    /\ mutex' = "trigger"
    /\ locked_gantry_transform' = LockGantry(gantry_transform, locked_gantry_transform)
    /\ locked_facade_transform' = LockFacade(facade_transform, locked_facade_transform)
    /\ response' = Some([success |-> TRUE,
                         message |-> StatusMessage(locked_gantry_transform',
                                                   locked_facade_transform')])
    /\ before' = Some([facade |-> IsSome(locked_facade_transform),
                        gantry |-> IsSome(locked_gantry_transform)])
    /\ quiet' = TRUE
    /\ pc_trig' = "served"
    /\ parked' = parked \ {"trigger"}
    /\ UNCHANGED << marker, facade_transform, gantry_transform, agv_transform,
                    pc_loop, sec, pc_sub, msg, nmsgs, published, seen, stale >>

\* end of the `if let` block: the guard is dropped
TrigUnlock ==
    /\ pc_trig = "served"
    /\ mutex = "trigger"
    /\ mutex' = "free"
    /\ response' = None
    /\ before' = None
    /\ pc_trig' = "idle"
    /\ UNCHANGED << parked, shared, pc_loop, sec, pc_sub, msg, nmsgs, published,
                    seen, quiet, stale >>

\* ------------------------------------------------------------ subscriber

\* variant: the facade block is entered only for markers 0 and 1
AfterFilterGated(id) == IF id \in {"aruco_0", "aruco_1"} THEN "update_01" ELSE "update_2_15"

\* the statement after the filter, and after each block, for this message
AfterFilter(id) == IF id \in {"aruco_0", "aruco_1"} THEN "update_01" ELSE "facade"
AfterFacade(id) == IF id \in {"aruco_2", "aruco_15"} THEN "update_2_15" ELSE "gantry"
AfterGantry(id) == IF id = "aruco_5" THEN "update_5" ELSE "agv"
AfterUpdate(at) ==
    CASE at = "update_01"   -> "facade"
      [] at = "update_2_15" -> "gantry"
      [] at = "update_5"    -> "agv"

\* variant: the filter lets every frame id through
IgnoredNone(id) == FALSE

\* !interested_in.contains(&msg.child_frame_id.as_str())
Ignored(id) == id \notin interested_in

\* sub.for_each(|msg| ..): the stream yields the next message and the closure
\* returns at once when the frame id is not one it is interested in
SubRecv ==
    /\ pc_sub = "idle"
    /\ nmsgs < MaxMsgs
    /\ nmsgs' = nmsgs + 1
    /\ \E m \in Messages :
         IF Ignored(m.child_frame_id)
         THEN /\ pc_sub' = "idle"
              /\ msg' = None
         ELSE /\ pc_sub' = AfterFilter(m.child_frame_id)
              /\ msg' = Some(m)
    /\ UNCHANGED << parked, shared, mutex, pc_loop, sec, pc_trig, published, response,
                    seen, before, quiet, stale >>

\* update_or_set(msg.clone(), &mut state.lock().unwrap().marker_k): lock,
\* update the slot of the message's frame id, guard dropped
SubUpdate ==
    /\ pc_sub \in {"update_01", "update_2_15", "update_5"}
    /\ mutex = "free"
    /\ LET id == Get(msg).child_frame_id IN
        /\ marker' = [marker EXCEPT ![id] = update_or_set(Get(msg), marker[id])]
        /\ seen' = seen \cup {id}
    /\ quiet' = FALSE
    /\ pc_sub' = AfterUpdate(pc_sub)
    /\ parked' = parked \ {"sub"}
    /\ UNCHANGED << facade_transform, gantry_transform, agv_transform,
                    locked_facade_transform, locked_gantry_transform,
                    mutex, pc_loop, sec, pc_trig, msg, nmsgs, published, response,
                    before, stale >>

\* the facade block: lock, derive or clear, guard dropped
SubFacade ==
    /\ pc_sub = "facade"
    /\ mutex = "free"
    /\ facade_transform' = DeriveFacade(marker["aruco_0"], marker["aruco_1"])
    /\ stale' = stale \ {"facade"}
    /\ pc_sub' = AfterFacade(Get(msg).child_frame_id)
    /\ parked' = parked \ {"sub"}
    /\ UNCHANGED << marker, gantry_transform, agv_transform,
                    locked_facade_transform, locked_gantry_transform,
                    mutex, pc_loop, sec, pc_trig, msg, nmsgs, published, response,
                    seen, before, quiet >>

\* the gantry block: lock, derive or clear, guard dropped
SubGantry ==
    /\ pc_sub = "gantry"
    /\ mutex = "free"
    /\ gantry_transform' = DeriveGantry(marker["aruco_15"], marker["aruco_2"])
    /\ stale' = stale \ {"gantry"}
    /\ pc_sub' = AfterGantry(Get(msg).child_frame_id)
    /\ parked' = parked \ {"sub"}
    /\ UNCHANGED << marker, facade_transform, agv_transform,
                    locked_facade_transform, locked_gantry_transform,
                    mutex, pc_loop, sec, pc_trig, msg, nmsgs, published, response,
                    seen, before, quiet >>

\* the agv block: lock, derive when marker 5 is present, guard dropped; the closure returns
SubAgv ==
    /\ pc_sub = "agv"
    /\ mutex = "free"
    /\ agv_transform' = DeriveAgv(marker["aruco_5"], agv_transform)
    /\ pc_sub' = "idle"
    /\ msg' = None
    /\ parked' = parked \ {"sub"}
    /\ UNCHANGED << marker, facade_transform, gantry_transform,
                    locked_facade_transform, locked_gantry_transform,
                    mutex, pc_loop, sec, pc_trig, nmsgs, published, response,
                    seen, before, quiet, stale >>

\* ------------------------------------------------------------ the mutex

\* the three threads of control that lock the state
Threads == {"loop", "trigger", "sub"}

\* the thread's next statement is a state.lock()
AtLock(t) ==
    CASE t = "loop"    -> pc_loop \in {"sweep", "publish"}
      [] t = "trigger" -> pc_trig = "lock"
      [] t = "sub"     -> pc_sub \in {"update_01", "facade", "update_2_15",
                                      "gantry", "update_5", "agv"}

\* Mutex::lock() finds the mutex held by another thread and blocks; the
\* thread takes the mutex by its own block's action once it is free again
\* (std::sync::Mutex hands the lock to whoever takes it first)
Park ==
    /\ \E t \in Threads \ parked :
         /\ AtLock(t)
         /\ mutex \notin {"free", t}
         /\ parked' = parked \cup {t}
    /\ UNCHANGED << shared, mutex, pc_loop, sec, pc_trig, pc_sub, msg, nmsgs,
                    published, response, seen, before, quiet, stale >>

\* ------------------------------------------------------------ specification

Next ==
    \/ ReadTime
    \/ Sweep
    \/ Publish
    \/ PublishUnlock
    \/ TrigRecv
    \/ TrigServe
    \/ TrigUnlock
    \/ SubRecv
    \/ SubUpdate
    \/ SubFacade
    \/ SubGantry
    \/ SubAgv

Spec == Init /\ [][Next]_vars

\* the same steps, with the blocking of Mutex::lock() recorded in parked
NextMutex ==
    \/ Next
    \/ Park

SpecMutex == Init /\ [][NextMutex]_vars

\* the steps of each thread once it has work: the periodic loop's two blocks,
\* the trigger task's request in hand, the subscriber's message in hand
LoopWork == Sweep \/ Publish \/ PublishUnlock
TrigWork == TrigServe \/ TrigUnlock
SubWork  == SubUpdate \/ SubFacade \/ SubGantry \/ SubAgv

\* the three threads are scheduled fairly: a thread that can take a step
\* again and again does take one (the arrival of requests and messages and
\* the loop's spin_once are not forced)
FairSpec ==
    /\ Spec
    /\ SF_vars(LoopWork)
    /\ SF_vars(TrigWork)
    /\ SF_vars(SubWork)

\* ------------------------------------------------------------ claims

\* C1: right after a lock request's copy (the guard still held) the locked
\* facade equals the live facade and the locked gantry equals the live gantry,
\* whether present or absent: an absent live value overwrites a present
\* locked one.
C1_LockCopiesCurrent ==
    pc_trig = "served" =>
        /\ locked_facade_transform = facade_transform
        /\ locked_gantry_transform = gantry_transform

\* a lock request has just replaced a present locked facade by absence
C1_Witness ==
    /\ pc_trig = "served"
    /\ Get(before).facade
    /\ locked_facade_transform = None

\* the two locked fields
Locked == << locked_facade_transform, locked_gantry_transform >>

\* a lock request's copy
TrigServeStep == pc_trig = "lock" /\ pc_trig' = "served"

\* C2: both locked fields are absent at startup and change only in a lock
\* request's copy; no sweep, publish tick or observation step changes them.
C2_LockedOnlyByLock ==
    /\ locked_facade_transform = None /\ locked_gantry_transform = None
    /\ [][ Locked' # Locked => TrigServeStep ]_vars

\* a publish tick is under way with a locked facade whose stamp is older than
\* the staleness threshold and whose live counterpart is gone
C2_Witness ==
    /\ pc_loop = "pub_end"
    /\ pc_trig = "idle"
    /\ IsSome(locked_facade_transform)
    /\ sec - Get(locked_facade_transform).sec > StaleAfter
    /\ facade_transform = None

\* C3: a lock request served after another one, with no update_or_set in
\* between, leaves the locked snapshot as the earlier request left it.
C3_LockTwiceSame ==
    [][ (TrigServeStep /\ quiet) => Locked' = Locked ]_vars

\* what the facade and gantry blocks would derive from the slots as they are
FacadeOfSlots == DeriveFacade(marker["aruco_0"], marker["aruco_1"])
GantryOfSlots == DeriveGantry(marker["aruco_15"], marker["aruco_2"])

\* C4: whenever a lock request or a publish tick holds the guard, the facade
\* is the one derived from slots 0 and 1 and the gantry the one derived from
\* slots 15 and 2 as last written by observations (slots emptied by a sweep
\* since the derivation set aside).
C4_ReadsSeeDerivedOfSlots ==
    (pc_trig = "served" \/ pc_loop = "pub_end") =>
        /\ "facade" \notin stale => facade_transform = FacadeOfSlots
        /\ "gantry" \notin stale => gantry_transform = GantryOfSlots

\* C5: whenever the guard is free, a present facade has slots 0 and 1
\* non-empty and a present gantry has slots 15 and 2 non-empty; and a tick
\* that publishes while a required slot is empty reports not ready.
C5_DerivedOnlyWithInputs ==
    /\ mutex = "free" =>
        /\ IsSome(facade_transform) =>
              IsSome(marker["aruco_0"]) /\ IsSome(marker["aruco_1"])
        /\ IsSome(gantry_transform) =>
              IsSome(marker["aruco_15"]) /\ IsSome(marker["aruco_2"])
    /\ pc_loop = "pub_end" =>
        (Get(published).ok =>
            \A m \in {"aruco_0", "aruco_1", "aruco_15", "aruco_2"} : IsSome(marker[m]))

\* the facade block and the gantry block of the subscriber
SubFacadeStep == pc_sub = "facade" /\ pc_sub' # "facade"
SubGantryStep == pc_sub = "gantry" /\ pc_sub' # "gantry"

\* C6: a facade block leaves the facade present iff slots 0 and 1 are both
\* non-empty in that block, a gantry block leaves the gantry present iff slots
\* 15 and 2 are; the slots are not changed between the test and the write.
C6_PresenceAtDerivation ==
    [][ /\ SubFacadeStep =>
            /\ marker' = marker
            /\ IsSome(facade_transform') <=>
                  (IsSome(marker["aruco_0"]) /\ IsSome(marker["aruco_1"]))
        /\ SubGantryStep =>
            /\ marker' = marker
            /\ IsSome(gantry_transform') <=>
                  (IsSome(marker["aruco_15"]) /\ IsSome(marker["aruco_2"]))
      ]_vars

\* a facade block has cleared the facade although markers 0 and 1 were both
\* observed before: slot 1 is still there, slot 0 was swept
C6_Witness ==
    /\ pc_sub \in {"update_2_15", "gantry"}
    /\ "facade" \notin stale
    /\ facade_transform = None
    /\ IsSome(marker["aruco_1"])
    /\ marker["aruco_0"] = None
    /\ "aruco_0" \in seen

\* the child_frame_id values of a batch
Frames(batch) == { batch[i].child_frame_id : i \in 1..Len(batch) }

SweepStep == pc_loop = "sweep" /\ pc_loop' = "publish"

\* C8: a sweep empties a non-empty slot iff the time read for that sweep
\* exceeds the slot's stamp by more than 5 whole seconds, and leaves it as it
\* is otherwise; an empty slot stays empty; nothing but a sweep empties a slot.
C8_StaleThreshold ==
    [][ \A m \in {"aruco_0", "aruco_1", "aruco_2", "aruco_15", "aruco_5"} :
          /\ SweepStep =>
                IF IsSome(marker[m])
                THEN IF sec - Get(marker[m]).sec > 5
                     THEN marker'[m] = None
                     ELSE marker'[m] = marker[m]
                ELSE marker'[m] = None
          /\ (IsSome(marker[m]) /\ marker'[m] = None) => SweepStep
      ]_vars

\* a sweep has just emptied one slot and kept another whose age is exactly 5
C8_Witness ==
    /\ pc_loop = "publish"
    /\ \E m \in seen : marker[m] = None
    /\ \E m \in seen : IsSome(marker[m]) /\ sec - Get(marker[m]).sec = 5

\* the fields of a TransformStamped other than the position
NonPosition(t) == [child_frame_id |-> t.child_frame_id, rot |-> t.rot, sec |-> t.sec]

\* an update_or_set statement of the subscriber
SubUpdateStep ==
    pc_sub \in {"update_01", "update_2_15", "update_5"} /\ pc_sub' # pc_sub

\* C9: an update_or_set leaves the slot non-empty with the orientation, stamp
\* and frame id of the observation; a slot changes only by being emptied or by
\* such an update, so a non-empty slot carries the non-position fields of the
\* last observation stored into it.
C9_SlotCarriesLatest ==
    [][ /\ SubUpdateStep =>
            LET id == Get(msg).child_frame_id IN
            /\ IsSome(marker'[id])
            /\ NonPosition(Get(marker'[id])) = NonPosition(Get(msg))
        /\ \A m \in {"aruco_0", "aruco_1", "aruco_2", "aruco_15", "aruco_5"} :
            marker'[m] # marker[m] =>
                \/ marker'[m] = None
                \/ SubUpdateStep /\ Get(msg).child_frame_id = m
      ]_vars

\* marker 0 or 1 has just been updated by filtering: the slot has the
\* observation's orientation and stamp and a position that is not the
\* observation's
C9_Witness ==
    /\ pc_sub = "facade"
    /\ Get(msg).child_frame_id \in {"aruco_0", "aruco_1"}
    /\ IsSome(marker[Get(msg).child_frame_id])
    /\ Get(marker[Get(msg).child_frame_id]).rot = Get(msg).rot
    /\ Get(marker[Get(msg).child_frame_id]).sec = Get(msg).sec
    /\ Get(marker[Get(msg).child_frame_id]).x # Get(msg).x

\* the subscriber takes a message from the stream
SubRecvStep == nmsgs' # nmsgs

\* C10: the closure goes on past its filter only for the five frame ids and
\* otherwise returns with the shared state unchanged; the steps of the handler
\* of an observation change no marker slot but that of its frame id.
C10_OnlyFiveIdsAndOwnSlot ==
    [][ /\ SubRecvStep =>
            /\ shared' = shared
            /\ pc_sub' # "idle" =>
                  Get(msg').child_frame_id
                      \in {"aruco_0", "aruco_1", "aruco_2", "aruco_15", "aruco_5"}
            /\ pc_sub' = "idle" => msg' = None
        /\ (pc_sub # "idle" /\ pc_sub' # pc_sub) =>
            \A m \in {"aruco_0", "aruco_1", "aruco_2", "aruco_15", "aruco_5"} :
                m # Get(msg).child_frame_id => marker'[m] = marker[m]
      ]_vars

\* the only message so far was dropped by the filter: the state is as it
\* was at startup
C10_Witness ==
    /\ nmsgs = 1
    /\ pc_sub = "idle"
    /\ seen = {}
    /\ agv_transform = None

\* C11: the response of a lock request has success = true and the message
\* "gantry: <g>, facade: <f>", g and f being the presence of the locked gantry
\* and of the locked facade as this request's copy left them; copy and
\* response are made under one guard.
C11_ResponseReportsSnapshot ==
    pc_trig = "served" =>
        /\ IsSome(response)
        /\ Get(response).success = TRUE
        /\ Get(response).message =
              << "gantry: ",
                 IF IsSome(locked_gantry_transform) THEN "true" ELSE "false",
                 ", facade: ",
                 IF IsSome(locked_facade_transform) THEN "true" ELSE "false" >>

\* a request was answered "gantry: true, facade: false"
C11_Witness ==
    /\ pc_trig = "served"
    /\ IsSome(locked_gantry_transform)
    /\ locked_facade_transform = None
    /\ Get(response).message = << "gantry: ", "true", ", facade: ", "false" >>

\* the agv block of the subscriber
SubAgvStep == pc_sub = "agv" /\ pc_sub' = "idle"

\* C12: a present agv transform stays present; it changes only in an agv
\* block that finds slot 5 non-empty, so it keeps its value when a sweep
\* empties slot 5 and through the handlers of other markers' observations.
C12_AgvKept ==
    [][ /\ IsSome(agv_transform) => IsSome(agv_transform')
        /\ agv_transform' # agv_transform =>
              (SubAgvStep /\ IsSome(marker["aruco_5"]))
        /\ (SubAgvStep /\ marker["aruco_5"] = None) => agv_transform' = agv_transform
      ]_vars

\* the handler of another marker's observation is at its agv block with the
\* agv present and slot 5 emptied
C12_Witness ==
    /\ pc_sub = "agv"
    /\ Get(msg).child_frame_id # "aruco_5"
    /\ IsSome(agv_transform)
    /\ marker["aruco_5"] = None

\* the publish block of the periodic loop
PublishStep == pc_loop = "publish" /\ pc_loop' = "pub_end"

\* the stored transforms that are present, in the order given
Present(ts) == SelectSeq(ts, LAMBDA o : IsSome(o))

\* C13: a tick's locked batch has one entry per present locked field, the
\* stored transform renamed facade_locked / gantry_locked and stamped with the
\* time read at the start of the tick; its live batch has one entry per
\* present derived transform, as stored; the stored state is left unchanged.
C13_BatchesAreCopies ==
    [][ PublishStep =>
          LET p  == Get(published')
              lk == Present(<< locked_facade_transform, locked_gantry_transform >>)
              nm == (IF IsSome(locked_facade_transform) THEN << "facade_locked" >> ELSE << >>)
                    \o (IF IsSome(locked_gantry_transform) THEN << "gantry_locked" >> ELSE << >>)
              lv == Present(<< facade_transform, gantry_transform, agv_transform >>)
          IN
          /\ shared' = shared
          /\ Len(p.locked) = Len(lk)
          /\ \A i \in 1..Len(lk) :
                /\ p.locked[i].child_frame_id = nm[i]
                /\ p.locked[i].sec = sec
                /\ p.locked[i].x = Get(lk[i]).x
                /\ p.locked[i].y = Get(lk[i]).y
                /\ p.locked[i].z = Get(lk[i]).z
                /\ p.locked[i].rot = Get(lk[i]).rot
          /\ Len(p.live) = Len(lv)
          /\ \A i \in 1..Len(lv) : p.live[i] = Get(lv[i])
      ]_vars

\* a tick published a locked facade entry with the tick's stamp, which is
\* not the stored one, next to a live batch of two entries
C13_Witness ==
    /\ pc_loop = "pub_end"
    /\ IsSome(locked_facade_transform)
    /\ Len(Get(published).locked) = 1
    /\ Get(published).locked[1].child_frame_id = "facade_locked"
    /\ Get(published).locked[1].sec # Get(locked_facade_transform).sec
    /\ Get(locked_facade_transform).child_frame_id = "facade_aruco"
    /\ Len(Get(published).live) = 2

\* C14: a sweep leaves the facade, gantry and agv transforms and the locked
\* snapshot as they are, also when it empties one of their input slots.
C14_SweepOnlySlots ==
    [][ SweepStep =>
          /\ facade_transform' = facade_transform
          /\ gantry_transform' = gantry_transform
          /\ agv_transform' = agv_transform
          /\ Locked' = Locked
      ]_vars

\* a sweep has just emptied slot 0 and the facade is still present
C14_Witness ==
    /\ pc_loop = "publish"
    /\ "facade" \in stale
    /\ IsSome(facade_transform)
    /\ marker["aruco_0"] = None

\* C15: the handler of every accepted observation goes through the facade
\* block and then the gantry block, whichever marker it is for; the facade
\* block sets the facade to what slots 0 and 1 give at that step, the gantry
\* block sets the gantry to what slots 15 and 2 give at that step.
C15_EveryObservationRederives ==
    [][ /\ (SubRecvStep /\ pc_sub' # "idle") => pc_sub' \in {"update_01", "facade"}
        /\ (pc_sub = "update_01" /\ pc_sub' # pc_sub) => pc_sub' = "facade"
        /\ SubFacadeStep =>
              /\ facade_transform' = FacadeOfSlots
              /\ pc_sub' \in {"update_2_15", "gantry"}
        /\ (pc_sub = "update_2_15" /\ pc_sub' # pc_sub) => pc_sub' = "gantry"
        /\ SubGantryStep =>
              /\ gantry_transform' = GantryOfSlots
              /\ pc_sub' \in {"update_5", "agv"}
        /\ (pc_sub # "idle" /\ pc_sub' = "idle") => pc_sub = "agv"
      ]_vars

\* the handler of an aruco_5 observation has cleared a facade whose slot 0
\* was swept
C15_Witness ==
    /\ pc_sub \in {"gantry", "update_5", "agv"}
    /\ Get(msg).child_frame_id = "aruco_5"
    /\ facade_transform = None
    /\ "facade" \notin stale
    /\ marker["aruco_0"] = None
    /\ IsSome(marker["aruco_1"])
    /\ "aruco_0" \in seen

\* C16: an update_or_set that finds the slot empty stores the observation as
\* it is; one that finds it occupied stores, per axis, old + (new - old) / 10.
\* The test and the write are one step.
C16_VerbatimOrSmoothed ==
    [][ SubUpdateStep =>
          LET id  == Get(msg).child_frame_id
              new == Get(msg)
          IN
          IF marker[id] = None
          THEN marker'[id] = << new >>
          ELSE LET old == Get(marker[id])
                   res == Get(marker'[id])
               IN /\ 10 * (res.x - old.x) = new.x - old.x
                  /\ 10 * (res.y - old.y) = new.y - old.y
                  /\ 10 * (res.z - old.z) = new.z - old.z
      ]_vars

\* slot 5 was occupied before (the agv is present and has another position),
\* was swept, and now holds the new observation unsmoothed
C16_Witness ==
    /\ pc_sub = "agv"
    /\ Get(msg).child_frame_id = "aruco_5"
    /\ marker["aruco_5"] = msg
    /\ IsSome(agv_transform)
    /\ Get(agv_transform).x # Get(msg).x

\* C17: a derived facade has the x, y and stamp of slot 1, z = 3.57 and the
\* frame name facade_aruco; a derived gantry has the x, y and stamp of slot
\* 15, z = 1.93 and the frame name gantry_aruco; the blocks change no slot.
C17_DerivedFields ==
    [][ /\ (SubFacadeStep /\ IsSome(facade_transform')) =>
              /\ Get(facade_transform').x = Get(marker["aruco_1"]).x
              /\ Get(facade_transform').y = Get(marker["aruco_1"]).y
              /\ Get(facade_transform').sec = Get(marker["aruco_1"]).sec
              /\ 100 * Get(facade_transform').z = 357 * Unit
              /\ Get(facade_transform').child_frame_id = "facade_aruco"
        /\ (SubGantryStep /\ IsSome(gantry_transform')) =>
              /\ Get(gantry_transform').x = Get(marker["aruco_15"]).x
              /\ Get(gantry_transform').y = Get(marker["aruco_15"]).y
              /\ Get(gantry_transform').sec = Get(marker["aruco_15"]).sec
              /\ 100 * Get(gantry_transform').z = 193 * Unit
              /\ Get(gantry_transform').child_frame_id = "gantry_aruco"
        /\ (SubFacadeStep \/ SubGantryStep) => marker' = marker
      ]_vars

\* a gantry was derived from slots 15 and 2 that differ in position and stamp
C17_Witness ==
    /\ pc_sub \in {"update_5", "agv"}
    /\ IsSome(gantry_transform)
    /\ IsSome(marker["aruco_15"])
    /\ IsSome(marker["aruco_2"])
    /\ Get(marker["aruco_15"]).x # Get(marker["aruco_2"]).x
    /\ Get(marker["aruco_15"]).sec # Get(marker["aruco_2"]).sec
    /\ Get(gantry_transform).x = Get(marker["aruco_15"]).x
    /\ Get(gantry_transform).sec = Get(marker["aruco_15"]).sec

\* C18: nothing is handed to the transport while the guard is held: a batch
\* or readiness flag is published, and a lock response is sent, only with
\* the mutex released.
C18_NoIoUnderGuard ==
    /\ IsSome(published) => mutex # "loop"
    /\ IsSome(response) => mutex # "trigger"

\* thread t takes the mutex in this step: it is at a state.lock() and moves on
Acquires(t) ==
    CASE t = "loop"    -> pc_loop \in {"sweep", "publish"} /\ pc_loop' # pc_loop
      [] t = "trigger" -> pc_trig = "lock" /\ pc_trig' # pc_trig
      [] t = "sub"     -> pc_sub # "idle" /\ pc_sub' # pc_sub

\* C19: a thread blocked in lock() is not overtaken: while some thread is
\* blocked, the mutex is taken only by a thread that is blocked as well,
\* never by one that comes to its lock() after the holder has released.
C19_NoOvertaking ==
    [][ \A q \in Threads :
          (Acquires(q) /\ parked \ {q} # {}) => q \in parked
      ]_vars

====
